---- MODULE Spec2Model ----
(***************************************************************************)
(* Job lifecycle and worker orchestration of whisperx-api-server.          *)
(*                                                                         *)
(* The store is the transcription_jobs table (db_models.py), the files are *)
(* the uploaded audio artifacts, the worker is the TranscriptionWorker of  *)
(* services/worker.py with its loop threads, and the producer/consumer     *)
(* operations are the handlers of routers/transcription_jobs.py.           *)
(*                                                                         *)
(* Every access of a loop thread to the store is one step, so that the     *)
(* API handlers and other loop threads interleave between them as they do  *)
(* between two SQL statements.  A SQLAlchemy session keeps the object it   *)
(* loaded: mem[t] says what thread t's session holds for its job.          *)
(***************************************************************************)
EXTENDS Integers, FiniteSets, Sequences, TLC

\* ---------------------------------------------------------------- bounds
MaxJobs == 2
MaxThreads == 2
MaxFaults == 1
MaxRows == 5
MaxPage == 2
MaxLimit == 2

Jobs == 1..MaxJobs
Threads == 1..MaxThreads

\* ----------------------------------------------------------------- state
VARIABLES
    store,           \* transcription_jobs: job id -> row (status "absent": no row)
    files,           \* audio files on disk, named by the job id of their path
    nextId,          \* the next fresh uuid4
    now,             \* func.now() of the store, in seconds
    running,         \* TranscriptionWorker._running
    thread,          \* TranscriptionWorker._thread: a loop thread, or 0 for None
    current_job_id,  \* TranscriptionWorker._current_job_id, 0 for None
    ctl,             \* the caller of start()/stop(): "idle", or "joining" inside stop()
    pc,              \* where each loop thread is in _run/_get_next_job/_process_job
    job,             \* the local variable `job` of each loop thread, 0 for none
    mem,             \* what the thread's session holds for `job`
    err,             \* the exception `e` caught by _process_job
    faults,          \* store, file-system and serialisation errors raised so far
    returned,        \* per job: times _get_next_job returned it ("Picked up job")
    cleanups,        \* per job: times _cleanup_audio_file was invoked for its path
    postStop,        \* per thread: claims committed since stop() with no start() after
    response,        \* what the last call of an API handler returned
    call             \* the last invocation of the transcription engine

vars == <<store, files, nextId, now, running, thread, current_job_id, ctl, pc, job,
          mem, err, faults, returned, cleanups, postStop>>

storeVars == <<store, files, nextId, now>>
workerVars == <<running, thread, current_job_id, ctl>>
ghostVars == <<returned, cleanups, postStop>>
apiVars == <<vars, response>>
observed == <<response, call>>

\* ------------------------------------------------------------- job record
\* No handler has answered yet.
NoResponse ==
    [op |-> "none", id |-> 0, code |-> 0, page |-> 0, limit |-> 0, status |-> "none",
     jobs |-> <<>>, total |-> 0]

\* The configuration columns with the defaults of create_job's form fields
\* (None is 0 for the speaker bounds and "none" for the language).
DefaultConfig ==
    [model |-> "small", language |-> "none", diarize |-> FALSE, min_speakers |-> 0,
     max_speakers |-> 0, chunk_size |-> 15, vad_onset |-> "0.5", vad_offset |-> "0.363"]

Absent ==
    [status |-> "absent", transcript |-> "null", error_message |-> "null",
     completed_at |-> "null", created_at |-> 0, config |-> DefaultConfig]

NewJob(ts) ==
    [status |-> "pending", transcript |-> "null", error_message |-> "null",
     completed_at |-> "null", created_at |-> ts, config |-> DefaultConfig]

\* The engine has not been invoked yet.
NoCall == [id |-> 0, args |-> [request_id |-> 0]]

Present(j) == store[j].status # "absent"

Terminal(j) == store[j].status \in {"completed", "failed"}

\* A store, file-system or serialisation error can be raised (budgeted).
CanFault == faults < MaxFaults

\* Times transcriber.transcribe was invoked for job j: once for every time the job
\* was returned by _get_next_job, as soon as _process_job reaches the call.
EngineCalls(j) == returned[j] - Cardinality({t \in Threads : pc[t] = "process" /\ job[t] = j})

\* Loop thread t is alive (Thread.is_alive()).
Alive(t) == pc[t] # "dead"

\* -------------------------------------------------------------- Init
Init ==
    /\ store = [j \in Jobs |-> Absent]
    /\ files = {}
    /\ nextId = 1
    /\ now = 0
    /\ running = FALSE
    /\ thread = 0
    /\ current_job_id = 0
    /\ ctl = "idle"
    /\ pc = [t \in Threads |-> "dead"]
    /\ job = [t \in Threads |-> 0]
    /\ mem = [t \in Threads |-> "none"]
    /\ err = [t \in Threads |-> "none"]
    /\ faults = 0
    /\ returned = [j \in Jobs |-> 0]
    /\ cleanups = [j \in Jobs |-> 0]
    /\ postStop = [t \in Threads |-> 0]
    /\ response = NoResponse
    /\ call = NoCall

\* ------------------------------------------------- routers/transcription_jobs.py
\* create_job: the upload is written to a fresh path, then the pending row is
\* inserted; created_at is the store's func.now() (dt: seconds since the last insert).
CreateJob ==
    /\ nextId <= MaxJobs
    /\ \E dt \in {0, 1} :
        \/ /\ files' = files \cup {nextId}
           /\ store' = [store EXCEPT ![nextId] = NewJob(now + dt)]
           /\ now' = now + dt
           /\ nextId' = nextId + 1
           /\ UNCHANGED faults
        \/ \* db.commit() raises after the file was saved: the file stays, no row
           /\ CanFault
           /\ files' = files \cup {nextId}
           /\ nextId' = nextId + 1
           /\ now' = now + dt
           /\ faults' = faults + 1
           /\ UNCHANGED store
    /\ UNCHANGED <<workerVars, pc, job, mem, err, ghostVars>>

\* create_job when saving the upload raises: HTTP 500, nothing is stored.
CreateJobSaveFails ==
    /\ nextId <= MaxJobs
    /\ CanFault
    /\ faults' = faults + 1
    /\ UNCHANGED <<storeVars, workerVars, pc, job, mem, err, ghostVars>>

\* A delete_job that removes the file named after the id before looking for the row.
DeleteJobNotFoundRemovesFile(j) ==
    /\ ~Present(j)
    /\ files' = files \ {j}
    /\ UNCHANGED <<store, nextId, now, workerVars, pc, job, mem, err, faults, ghostVars>>

\* delete_job on an id with no row: HTTP 404.
DeleteJobNotFound(j) ==
    /\ ~Present(j)
    /\ UNCHANGED vars

\* delete_job: the file is removed if it exists (a failure is logged), then the row
\* is deleted and the deletion committed.
DeleteJob(j) ==
    /\ Present(j)
    /\ \E rmFails \in BOOLEAN, commitFails \in BOOLEAN :
        LET n == (IF rmFails THEN 1 ELSE 0) + (IF commitFails THEN 1 ELSE 0) IN
        /\ rmFails => j \in files
        /\ faults + n <= MaxFaults
        /\ faults' = faults + n
        /\ files' = IF rmFails THEN files ELSE files \ {j}
        /\ store' = IF commitFails THEN store ELSE [store EXCEPT ![j] = Absent]
    /\ UNCHANGED <<nextId, now, workerVars, pc, job, mem, err, ghostVars>>

\* What a handler answers: the HTTP status and, for list_jobs, the page.
Reply(op, id, code) == [NoResponse EXCEPT !.op = op, !.id = id, !.code = code]

\* list_jobs, `if status:`: None and the empty string apply no filter.
StatusGiven(status) == status \notin {"none", ""}

\* list_jobs, lines 156-159: the rows the query selects.
Selected(status) ==
    {j \in DOMAIN store : Present(j) /\ (StatusGiven(status) => store[j].status = status)}

\* order_by(created_at.desc()): every order of the rows S with created_at
\* descending; rows of the same second come in any order (ids are uuid4).
RECURSIVE Orderings(_)
Orderings(S) ==
    IF S = {} THEN {<<>>}
    ELSE UNION {{<<j>> \o rest : rest \in Orderings(S \ {j})} :
                j \in {k \in S : \A m \in S : store[m].created_at <= store[k].created_at}}

\* list_jobs, line 165.
Offset(page, limit) == (page - 1) * limit

\* .offset(offset).limit(limit).all() in SQLite: a negative OFFSET skips nothing
\* and a negative LIMIT is no limit.
Rows(ord, offset, limit) ==
    LET skip == IF offset < 0 THEN 0 ELSE offset
        take == IF limit < 0 THEN Len(ord) ELSE limit
        hi == IF skip + take < Len(ord) THEN skip + take ELSE Len(ord)
    IN IF skip + 1 > hi THEN <<>> ELSE SubSeq(ord, skip + 1, hi)

\* list_jobs: page, limit and status are taken from the query string as they come.
ListJobs(page, limit, status) ==
    /\ \E ord \in Orderings(Selected(status)) :
        response' = [op |-> "list", id |-> 0, code |-> 200, page |-> page,
                     limit |-> limit, status |-> status,
                     jobs |-> Rows(ord, Offset(page, limit), limit),
                     total |-> Cardinality(Selected(status))]
    /\ UNCHANGED vars

\* create_job with its answer: 200 with the new job, 500 when the upload could not
\* be saved or the insert failed.
CreateJobCall ==
    \/ /\ CreateJob
       /\ response' = Reply("create", nextId, IF store' = store THEN 500 ELSE 200)
    \/ /\ CreateJobSaveFails
       /\ response' = Reply("create", 0, 500)

\* delete_job with its answer: 404 for an id with no row, 200 when the row was
\* deleted, 500 when the commit failed.
DeleteJobCall(j) ==
    \/ /\ DeleteJobNotFound(j)
       /\ response' = Reply("delete", j, 404)
    \/ /\ DeleteJob(j)
       /\ response' = Reply("delete", j, IF Present(j)' THEN 500 ELSE 200)

\* get_job: 404 for an id with no row, else the job.
GetJobCall(j) ==
    /\ response' = Reply("get", j, IF Present(j) THEN 200 ELSE 404)
    /\ UNCHANGED vars

\* ------------------------------------------------------- services/worker.py
\* The slot a new threading.Thread takes: threads that ended are reused.
FreeSlot == CHOOSE t \in Threads : ~Alive(t) /\ \A u \in Threads : ~Alive(u) => t <= u

\* start(): a no-op when self._thread is alive, else a new loop thread.  start()
\* and stop() are called by one caller (the application's startup and shutdown),
\* so start() does not run inside a stop() that is still waiting in join.
Start ==
    /\ ctl = "idle"
    /\ IF thread # 0 /\ Alive(thread)
       THEN UNCHANGED vars
       ELSE /\ \E t \in Threads : ~Alive(t)
            /\ running' = TRUE
            /\ thread' = FreeSlot
            /\ pc' = [pc EXCEPT ![FreeSlot] = "loop"]
            /\ postStop' = [t \in Threads |-> 0]
            /\ UNCHANGED <<storeVars, current_job_id, ctl, job, mem, err, faults,
                           returned, cleanups>>

\* stop(), up to the join: self._running = False.
Stop ==
    /\ ctl = "idle"
    /\ running' = FALSE
    /\ ctl' = IF thread # 0 THEN "joining" ELSE "idle"
    /\ UNCHANGED <<storeVars, thread, current_job_id, pc, job, mem, err, faults, ghostVars>>

\* join(timeout=5.0) times out on a thread that is inside the transcription call
\* (minutes); a store access or the 2 s poll sleep ends within the timeout.
JoinTimesOut(t) == pc[t] = "engine"

\* stop(), from the join on: the join returns when the thread has ended or at
\* the timeout, and self._thread = None.
StopJoined ==
    /\ ctl = "joining"
    /\ ~Alive(thread) \/ JoinTimesOut(thread)
    /\ thread' = 0
    /\ ctl' = "idle"
    /\ UNCHANGED <<storeVars, running, current_job_id, pc, job, mem, err, faults, ghostVars>>

\* A loop that ignores the flag set by stop().
EntersIterationAlways == TRUE

\* _run: `while self._running` holds, so the loop goes into another iteration.
EntersIteration == running

\* _run, the loop head: another iteration, or "Worker loop ended".
LoopCheck(t) ==
    /\ pc[t] = "loop"
    /\ pc' = [pc EXCEPT ![t] = IF EntersIteration THEN "query" ELSE "dead"]
    /\ UNCHANGED <<storeVars, workerVars, job, mem, err, faults, ghostVars>>

\* A query that drops the order_by: any pending row.
AnyPending == {j \in Jobs : store[j].status = "pending"}

\* filter(status == "pending").order_by(created_at.asc()).first(): the rows the
\* query may return (rows with the same created_at come in no specified order).
OldestPending ==
    {j \in Jobs : /\ store[j].status = "pending"
                  /\ \A k \in Jobs : store[k].status = "pending"
                        => store[j].created_at <= store[k].created_at}

\* _get_next_job, the query: no pending row or a store error returns None and
\* _run sleeps for the poll interval; else the row is held for the update.
Query(t) ==
    /\ pc[t] = "query"
    /\ \/ /\ OldestPending = {}
          /\ pc' = [pc EXCEPT ![t] = "loop"]
          /\ UNCHANGED <<job, faults>>
       \/ /\ CanFault
          /\ faults' = faults + 1
          /\ pc' = [pc EXCEPT ![t] = "loop"]
          /\ UNCHANGED job
       \/ \E j \in OldestPending :
          /\ job' = [job EXCEPT ![t] = j]
          /\ pc' = [pc EXCEPT ![t] = "claim_commit"]
          /\ UNCHANGED faults
    /\ UNCHANGED <<storeVars, workerVars, mem, err, ghostVars>>

\* An UPDATE that would write the row back whether or not it is still there.
RowMatchesAlways(j) == TRUE

\* The UPDATE a session flushes for its object: by primary key, whatever the row
\* holds by now; it raises (StaleDataError) when the row is gone.
RowMatches(j) == Present(j)

\* _get_next_job: job.status = "processing"; db.commit().  A failure is caught:
\* rollback, return None.
ClaimCommit(t) ==
    /\ pc[t] = "claim_commit"
    /\ \/ /\ RowMatches(job[t])
          /\ store' = [store EXCEPT ![job[t]].status = "processing"]
          /\ pc' = [pc EXCEPT ![t] = "claim_refresh"]
          /\ postStop' = [postStop EXCEPT ![t] = IF running THEN @ ELSE @ + 1]
          /\ UNCHANGED <<job, faults>>
       \/ /\ ~RowMatches(job[t])
          /\ pc' = [pc EXCEPT ![t] = "loop"]
          /\ job' = [job EXCEPT ![t] = 0]
          /\ UNCHANGED <<store, faults, postStop>>
       \/ /\ CanFault
          /\ faults' = faults + 1
          /\ pc' = [pc EXCEPT ![t] = "loop"]
          /\ job' = [job EXCEPT ![t] = 0]
          /\ UNCHANGED <<store, postStop>>
    /\ UNCHANGED <<files, nextId, now, workerVars, mem, err, returned, cleanups>>

\* _get_next_job: db.refresh(job); return job.  A failure is caught (return None)
\* after the commit: the row stays in processing.
ClaimRefresh(t) ==
    /\ pc[t] = "claim_refresh"
    /\ \/ /\ Present(job[t])
          /\ pc' = [pc EXCEPT ![t] = "process"]
          /\ mem' = [mem EXCEPT ![t] = "loaded"]
          /\ returned' = [returned EXCEPT ![job[t]] = @ + 1]
          /\ UNCHANGED <<job, faults>>
       \/ /\ ~Present(job[t])
          /\ pc' = [pc EXCEPT ![t] = "loop"]
          /\ job' = [job EXCEPT ![t] = 0]
          /\ UNCHANGED <<mem, faults, returned>>
       \/ /\ CanFault
          /\ faults' = faults + 1
          /\ pc' = [pc EXCEPT ![t] = "loop"]
          /\ job' = [job EXCEPT ![t] = 0]
          /\ UNCHANGED <<mem, returned>>
    /\ UNCHANGED <<storeVars, workerVars, err, cleanups, postStop>>

\* _process_job up to the engine call: the job becomes the current one and
\* transcriber.transcribe is invoked; it reads the audio file first.
Process(t) ==
    /\ pc[t] = "process"
    /\ current_job_id' = job[t]
    /\ IF job[t] \in files
       THEN /\ pc' = [pc EXCEPT ![t] = "engine"]
            /\ UNCHANGED err
       ELSE /\ pc' = [pc EXCEPT ![t] = "fail_log"]
            /\ err' = [err EXCEPT ![t] = "no such file"]
    /\ UNCHANGED <<storeVars, running, thread, ctl, job, mem, faults, returned,
                   cleanups, postStop>>

\* _process_job, lines 147-161: the arguments of the engine invocation for job j.
\* The model is loaded from job.model; batch_size, asr_options, align and task are
\* literals; request_id is the job id.
EngineCall(j) ==
    [id |-> j,
     args |-> [model |-> store[j].config.model,
               language |-> store[j].config.language,
               diarize |-> store[j].config.diarize,
               chunk_size |-> store[j].config.chunk_size,
               batch_size |-> 16, align |-> TRUE, task |-> "transcribe",
               request_id |-> j]]

\* _process_job up to and including the engine invocation, with what it passes.
ProcessCall(t) ==
    /\ Process(t)
    /\ call' = IF job[t] \in files THEN EngineCall(job[t]) ELSE call
    /\ UNCHANGED response

\* The transcription call returns a result or raises.
EngineReturn(t) ==
    /\ pc[t] = "engine"
    /\ \/ /\ pc' = [pc EXCEPT ![t] = "wb_query"]
          /\ UNCHANGED err
       \/ /\ pc' = [pc EXCEPT ![t] = "fail_log"]
          /\ err' = [err EXCEPT ![t] = "engine timeout"]
    /\ UNCHANGED <<storeVars, workerVars, job, mem, faults, ghostVars>>

\* What the session holds after a commit raised: the flush or commit failure rolls
\* the transaction back, and a rollback expires every attribute set in memory.
AfterFailedCommit(m) == "expired"

\* The row with the success write-back applied (lines 170-184).
Completed(row) ==
    [row EXCEPT !.status = "completed", !.transcript = "json", !.completed_at = "set"]

\* The row with the failure write-back applied (lines 199-201) by a session that
\* holds m: attributes set in memory and never rolled back are flushed with it.
Failed(row, m, e) ==
    LET base == IF m = "dirty_full"
                THEN [row EXCEPT !.transcript = "json", !.completed_at = "set"]
                ELSE row
    IN [base EXCEPT !.status = "failed", !.error_message = e]

\* _process_job, success path: the row is queried again and the result is set on
\* it in memory.  A missing row leaves job = None and line 170 raises; json.dumps
\* raises on a result it cannot serialise, after job.status was set.
WbQuery(t) ==
    /\ pc[t] = "wb_query"
    /\ \/ /\ Present(job[t])
          /\ mem' = [mem EXCEPT ![t] = "dirty_full"]
          /\ pc' = [pc EXCEPT ![t] = "wb_commit"]
          /\ UNCHANGED <<err, faults>>
       \/ /\ Present(job[t])
          /\ CanFault
          /\ faults' = faults + 1
          /\ mem' = [mem EXCEPT ![t] = "dirty_status"]
          /\ err' = [err EXCEPT ![t] = "not JSON serializable"]
          /\ pc' = [pc EXCEPT ![t] = "fail_log"]
       \/ /\ ~Present(job[t])
          /\ mem' = [mem EXCEPT ![t] = "none"]
          /\ err' = [err EXCEPT ![t] = "NoneType"]
          /\ pc' = [pc EXCEPT ![t] = "fail_log"]
          /\ UNCHANGED faults
       \/ /\ CanFault
          /\ faults' = faults + 1
          /\ err' = [err EXCEPT ![t] = "store error"]
          /\ pc' = [pc EXCEPT ![t] = "fail_log"]
          /\ UNCHANGED mem
    /\ UNCHANGED <<storeVars, workerVars, job, ghostVars>>

\* _process_job, line 187: db.commit() of the completed job.
WbCommit(t) ==
    /\ pc[t] = "wb_commit"
    /\ \/ /\ RowMatches(job[t])
          /\ store' = [store EXCEPT ![job[t]] = Completed(@)]
          /\ mem' = [mem EXCEPT ![t] = "expired"]
          /\ pc' = [pc EXCEPT ![t] = "wb_attr"]
          /\ UNCHANGED <<err, faults>>
       \/ /\ ~RowMatches(job[t]) \/ CanFault
          /\ faults' = IF RowMatches(job[t]) THEN faults + 1 ELSE faults
          /\ mem' = [mem EXCEPT ![t] = AfterFailedCommit(@)]
          /\ err' = [err EXCEPT ![t] = "store error"]
          /\ pc' = [pc EXCEPT ![t] = "fail_log"]
          /\ UNCHANGED store
    /\ UNCHANGED <<files, nextId, now, workerVars, job, ghostVars>>

\* _process_job, line 190: job.audio_path is read after the commit expired the
\* object, so the row is loaded again; that raises when the row is gone or the
\* store fails, and the exception lands in the handler of line 192.
WbAttr(t) ==
    /\ pc[t] = "wb_attr"
    /\ \/ /\ Present(job[t])
          /\ mem' = [mem EXCEPT ![t] = "loaded"]
          /\ pc' = [pc EXCEPT ![t] = "wb_cleanup"]
          /\ UNCHANGED <<err, faults>>
       \/ /\ ~Present(job[t]) \/ CanFault
          /\ faults' = IF Present(job[t]) THEN faults + 1 ELSE faults
          /\ err' = [err EXCEPT ![t] = "store error"]
          /\ pc' = [pc EXCEPT ![t] = "fail_log"]
          /\ UNCHANGED mem
    /\ UNCHANGED <<storeVars, workerVars, job, ghostVars>>

\* _cleanup_audio_file: the file is removed if it exists; a failure of os.remove is
\* logged and swallowed.
CleanupAudioFile(t) ==
    /\ cleanups' = [cleanups EXCEPT ![job[t]] = @ + 1]
    /\ \/ /\ files' = files \ {job[t]}
          /\ UNCHANGED faults
       \/ /\ job[t] \in files
          /\ CanFault
          /\ faults' = faults + 1
          /\ UNCHANGED files

\* _process_job, line 190: the cleanup of the success path.
WbCleanup(t) ==
    /\ pc[t] = "wb_cleanup"
    /\ CleanupAudioFile(t)
    /\ pc' = [pc EXCEPT ![t] = "finally"]
    /\ UNCHANGED <<store, nextId, now, workerVars, job, mem, err, returned, postStop>>

\* _process_job, line 193: the handler logs job.id.  With job = None, or with an
\* expired object whose row cannot be loaded, that raises inside the handler and
\* the exception leaves _process_job through the finally block.
FailLog(t) ==
    /\ pc[t] = "fail_log"
    /\ \/ /\ mem[t] \in {"loaded", "dirty_status", "dirty_full"}
          /\ pc' = [pc EXCEPT ![t] = "fail_query"]
          /\ UNCHANGED <<mem, err, faults>>
       \/ /\ mem[t] = "expired"
          /\ Present(job[t])
          /\ mem' = [mem EXCEPT ![t] = "loaded"]
          /\ pc' = [pc EXCEPT ![t] = "fail_query"]
          /\ UNCHANGED <<err, faults>>
       \/ /\ mem[t] = "none" \/ (mem[t] = "expired" /\ ~Present(job[t]))
          /\ pc' = [pc EXCEPT ![t] = "finally"]
          /\ err' = [err EXCEPT ![t] = "raised in handler"]
          /\ UNCHANGED <<mem, faults>>
       \/ /\ mem[t] = "expired"
          /\ CanFault
          /\ faults' = faults + 1
          /\ pc' = [pc EXCEPT ![t] = "finally"]
          /\ err' = [err EXCEPT ![t] = "raised in handler"]
          /\ UNCHANGED mem
    /\ UNCHANGED <<storeVars, workerVars, job, ghostVars>>

\* _process_job, lines 197-201: the row is queried again; `if job` guards a
\* deleted row; a store error is caught by the inner handler (rollback).
FailQuery(t) ==
    /\ pc[t] = "fail_query"
    /\ \/ /\ Present(job[t])
          /\ pc' = [pc EXCEPT ![t] = "fail_commit"]
          /\ UNCHANGED faults
       \/ /\ ~Present(job[t])
          /\ pc' = [pc EXCEPT ![t] = "finally"]
          /\ UNCHANGED faults
       \/ /\ CanFault
          /\ faults' = faults + 1
          /\ pc' = [pc EXCEPT ![t] = "finally"]
    /\ UNCHANGED <<storeVars, workerVars, job, mem, err, ghostVars>>

\* _process_job, line 202: db.commit() of the failed job.
FailCommit(t) ==
    /\ pc[t] = "fail_commit"
    /\ \/ /\ RowMatches(job[t])
          /\ store' = [store EXCEPT ![job[t]] = Failed(@, mem[t], err[t])]
          /\ mem' = [mem EXCEPT ![t] = "expired"]
          /\ pc' = [pc EXCEPT ![t] = "fail_attr"]
          /\ UNCHANGED faults
       \/ /\ ~RowMatches(job[t]) \/ CanFault
          /\ faults' = IF RowMatches(job[t]) THEN faults + 1 ELSE faults
          /\ mem' = [mem EXCEPT ![t] = "expired"]
          /\ pc' = [pc EXCEPT ![t] = "finally"]
          /\ UNCHANGED store
    /\ UNCHANGED <<files, nextId, now, workerVars, job, err, ghostVars>>

\* _process_job, line 205: job.audio_path of the expired object is loaded; a
\* failure is caught by the inner handler and the cleanup is skipped.
FailAttr(t) ==
    /\ pc[t] = "fail_attr"
    /\ \/ /\ Present(job[t])
          /\ mem' = [mem EXCEPT ![t] = "loaded"]
          /\ pc' = [pc EXCEPT ![t] = "fail_cleanup"]
          /\ UNCHANGED faults
       \/ /\ ~Present(job[t]) \/ CanFault
          /\ faults' = IF Present(job[t]) THEN faults + 1 ELSE faults
          /\ pc' = [pc EXCEPT ![t] = "finally"]
          /\ UNCHANGED mem
    /\ UNCHANGED <<storeVars, workerVars, job, err, ghostVars>>

\* _process_job, line 205: the cleanup of the failure path.
FailCleanup(t) ==
    /\ pc[t] = "fail_cleanup"
    /\ CleanupAudioFile(t)
    /\ pc' = [pc EXCEPT ![t] = "finally"]
    /\ UNCHANGED <<store, nextId, now, workerVars, job, mem, err, returned, postStop>>

\* A _run without its try/except: an exception that leaves _process_job ends the thread.
AfterIterationUncaught(e) == IF e = "raised in handler" THEN "dead" ELSE "loop"

\* _run, lines 78-86: _process_job returned, or raised e and `except Exception`
\* caught it (logged, poll sleep); either way the thread is back at the loop head.
AfterIteration(e) == "loop"

\* _process_job, the finally block: db.close(), self._current_job_id = None; then
\* _run goes back to the loop head (after the poll sleep when an exception came out).
Finally(t) ==
    /\ pc[t] = "finally"
    /\ current_job_id' = 0
    /\ pc' = [pc EXCEPT ![t] = AfterIteration(err[t])]
    /\ job' = [job EXCEPT ![t] = 0]
    /\ mem' = [mem EXCEPT ![t] = "none"]
    /\ err' = [err EXCEPT ![t] = "none"]
    /\ UNCHANGED <<storeVars, running, thread, ctl, faults, ghostVars>>

\* ------------------------------------------------------------ specification
Next ==
    \/ CreateJob /\ UNCHANGED observed
    \/ CreateJobSaveFails /\ UNCHANGED observed
    \/ \E j \in Jobs : DeleteJob(j) /\ UNCHANGED observed
    \/ \E j \in Jobs : DeleteJobNotFound(j) /\ UNCHANGED observed
    \/ Start /\ UNCHANGED observed
    \/ Stop /\ UNCHANGED observed
    \/ StopJoined /\ UNCHANGED observed
    \/ \E t \in Threads : LoopCheck(t) /\ UNCHANGED observed
    \/ \E t \in Threads : Query(t) /\ UNCHANGED observed
    \/ \E t \in Threads : ClaimCommit(t) /\ UNCHANGED observed
    \/ \E t \in Threads : ClaimRefresh(t) /\ UNCHANGED observed
    \/ \E t \in Threads : Process(t) /\ UNCHANGED observed
    \/ \E t \in Threads : EngineReturn(t) /\ UNCHANGED observed
    \/ \E t \in Threads : WbQuery(t) /\ UNCHANGED observed
    \/ \E t \in Threads : WbCommit(t) /\ UNCHANGED observed
    \/ \E t \in Threads : WbAttr(t) /\ UNCHANGED observed
    \/ \E t \in Threads : WbCleanup(t) /\ UNCHANGED observed
    \/ \E t \in Threads : FailLog(t) /\ UNCHANGED observed
    \/ \E t \in Threads : FailQuery(t) /\ UNCHANGED observed
    \/ \E t \in Threads : FailCommit(t) /\ UNCHANGED observed
    \/ \E t \in Threads : FailAttr(t) /\ UNCHANGED observed
    \/ \E t \in Threads : FailCleanup(t) /\ UNCHANGED observed
    \/ \E t \in Threads : Finally(t) /\ UNCHANGED observed

Spec == Init /\ [][Next]_vars

\* Whatever loop thread t does next.
ThreadStep(t) ==
    \/ LoopCheck(t) \/ Query(t) \/ ClaimCommit(t) \/ ClaimRefresh(t) \/ Process(t)
    \/ EngineReturn(t) \/ WbQuery(t) \/ WbCommit(t) \/ WbAttr(t) \/ WbCleanup(t)
    \/ FailLog(t) \/ FailQuery(t) \/ FailCommit(t) \/ FailAttr(t) \/ FailCleanup(t)
    \/ Finally(t)

\* A loop thread that can take a step takes one: the thread is scheduled, the store
\* answers and the engine call returns or raises.  The callers of the handlers and
\* of start()/stop() are under no obligation.
FairSpec == Spec /\ \A t \in Threads : WF_vars(ThreadStep(t) /\ UNCHANGED observed)

\* ------------------------------------------- the handlers without the worker
NextApi ==
    \/ CreateJobCall /\ UNCHANGED call
    \/ \E j \in Jobs : DeleteJobCall(j) /\ UNCHANGED call
    \/ \E j \in Jobs : GetJobCall(j) /\ UNCHANGED call

SpecApi == Init /\ [][NextApi]_apiVars

\* ----------------------------------------------------- list_jobs on any store
ListRows == 1..MaxRows
Pages == 0..MaxPage
Limits == -1..MaxLimit
StatusFilters == {"none", "", "completed", "failed"}

RECURSIVE Sum(_, _)
Sum(f, n) == IF n = 0 THEN 0 ELSE f[n] + Sum(f, n - 1)

\* A store of n finished jobs, n <= MaxRows: each completed or failed, created in
\* the order of their ids, some within the same second.
InitList ==
    /\ \E n \in 0..MaxRows :
        \E st \in [1..n -> {"completed", "failed"}], dt \in [1..n -> {0, 1}] :
            /\ store = [j \in ListRows |->
                          IF j > n THEN Absent
                          ELSE IF st[j] = "completed" THEN Completed(NewJob(Sum(dt, j)))
                          ELSE Failed(NewJob(Sum(dt, j)), "loaded", "engine timeout")]
            /\ nextId = n + 1
            /\ now = Sum(dt, n)
    /\ files = {}
    /\ running = FALSE
    /\ thread = 0
    /\ current_job_id = 0
    /\ ctl = "idle"
    /\ pc = [t \in Threads |-> "dead"]
    /\ job = [t \in Threads |-> 0]
    /\ mem = [t \in Threads |-> "none"]
    /\ err = [t \in Threads |-> "none"]
    /\ faults = 0
    /\ returned = [j \in Jobs |-> 0]
    /\ cleanups = [j \in Jobs |-> 0]
    /\ postStop = [t \in Threads |-> 0]
    /\ response = NoResponse
    /\ call = NoCall

\* One call in each behaviour: the handler keeps nothing from one call to the next.
NextList ==
    /\ response = NoResponse
    /\ \E page \in Pages, limit \in Limits, status \in StatusFilters :
           ListJobs(page, limit, status) /\ UNCHANGED call

SpecList == InitList /\ [][NextList]_apiVars

\* ------------------------------------- the engine invocation for any stored job
\* The values create_job can store in the configuration columns.
Configs ==
    [model : {"small", "large-v3"}, language : {"none", "en"}, diarize : BOOLEAN,
     min_speakers : {0, 2}, max_speakers : {0, 3}, chunk_size : {15, 30},
     vad_onset : {"0.5", "0.3"}, vad_offset : {"0.363", "0.2"}]

\* One pending job with any configuration, its upload on disk.
InitCall ==
    /\ \E c \in Configs :
         store = [j \in Jobs |-> IF j = 1 THEN [NewJob(0) EXCEPT !.config = c] ELSE Absent]
    /\ files = {1}
    /\ nextId = 2
    /\ now = 0
    /\ running = FALSE
    /\ thread = 0
    /\ current_job_id = 0
    /\ ctl = "idle"
    /\ pc = [t \in Threads |-> "dead"]
    /\ job = [t \in Threads |-> 0]
    /\ mem = [t \in Threads |-> "none"]
    /\ err = [t \in Threads |-> "none"]
    /\ faults = 0
    /\ returned = [j \in Jobs |-> 0]
    /\ cleanups = [j \in Jobs |-> 0]
    /\ postStop = [t \in Threads |-> 0]
    /\ response = NoResponse
    /\ call = NoCall

\* The worker on that store.
NextCall ==
    \/ Start /\ UNCHANGED observed
    \/ \E t \in Threads : LoopCheck(t) /\ UNCHANGED observed
    \/ \E t \in Threads : Query(t) /\ UNCHANGED observed
    \/ \E t \in Threads : ClaimCommit(t) /\ UNCHANGED observed
    \/ \E t \in Threads : ClaimRefresh(t) /\ UNCHANGED observed
    \/ \E t \in Threads : ProcessCall(t)
    \/ \E t \in Threads : EngineReturn(t) /\ UNCHANGED observed
    \/ \E t \in Threads : WbQuery(t) /\ UNCHANGED observed
    \/ \E t \in Threads : WbCommit(t) /\ UNCHANGED observed
    \/ \E t \in Threads : WbAttr(t) /\ UNCHANGED observed
    \/ \E t \in Threads : WbCleanup(t) /\ UNCHANGED observed
    \/ \E t \in Threads : FailLog(t) /\ UNCHANGED observed
    \/ \E t \in Threads : FailQuery(t) /\ UNCHANGED observed
    \/ \E t \in Threads : FailCommit(t) /\ UNCHANGED observed
    \/ \E t \in Threads : FailAttr(t) /\ UNCHANGED observed
    \/ \E t \in Threads : FailCleanup(t) /\ UNCHANGED observed
    \/ \E t \in Threads : Finally(t) /\ UNCHANGED observed

SpecCall == InitCall /\ [][NextCall]_<<vars, observed>>

\* ------------------------------------------------------------------ claims
\* Thread t commits a claim in this step (_get_next_job, line 105).
ClaimStep(t) == pc[t] = "claim_commit" /\ pc'[t] = "claim_refresh"

\* No loop thread holds job j: every iteration that worked on it has ended.
Settled(j) == \A t \in Threads : job[t] # j

\* The status changes the state machine allows, with the insert and the delete.
ForwardStep(from, to) ==
    \/ to = "absent"
    \/ from = "absent" /\ to = "pending"
    \/ from = "pending" /\ to = "processing"
    \/ from = "processing" /\ to \in {"completed", "failed"}

\* C1: the status of a job changes only pending -> processing -> completed or
\* failed; a completed or failed job never changes status again and no job
\* returns to pending.
C1_StatusOnlyMovesForward ==
    [][\A j \in Jobs : store'[j].status # store[j].status
            => ForwardStep(store[j].status, store'[j].status)]_vars

\* C2: for every row, transcript is set iff the status is completed, and
\* error_message is set iff the status is failed.
C2_ResultFieldsMatchStatus ==
    \A j \in Jobs : Present(j) =>
        /\ (store[j].transcript # "null") <=> (store[j].status = "completed")
        /\ (store[j].error_message # "null") <=> (store[j].status = "failed")

C4_ClaimedByOneCaller == \A j \in Jobs : returned[j] <= 1

\* C5: the transcription engine is invoked at most once for a job, and a failed
\* job is never put back to pending or processing.
C5_AttemptedOnce ==
    [][\A j \in Jobs :
         /\ EngineCalls(j)' <= 1
         /\ store[j].status = "failed" => store'[j].status \in {"failed", "absent"}]_vars

\* C6: once a job is completed or failed and the iteration that worked on it has
\* ended, its audio file is gone: the worker removed it (deletion is best effort,
\* so a removal that was attempted and failed is not held against the worker).
C6_ArtifactGoneWhenTerminal ==
    \A j \in Jobs : (Terminal(j) /\ Settled(j)) => (j \notin files \/ cleanups[j] > 0)

\* C7: _cleanup_audio_file is invoked exactly once for every job that reaches a
\* terminal state, and never for a job that is pending or processing.
C7_CleanupExactlyOnce ==
    [][\A j \in Jobs :
         /\ cleanups'[j] > cleanups[j]
                => (cleanups[j] = 0 /\ store[j].status \notin {"pending", "processing"})
         /\ (Terminal(j)' /\ Settled(j)') => cleanups'[j] = 1]_vars

\* C8: the worker never has two transcription calls in progress at once.
C8_OneJobAtATime == Cardinality({t \in Threads : pc[t] = "engine"}) <= 1

\* C9: start() called while a worker loop is running creates no second loop.
C9_StartCreatesNoSecondLoop ==
    [][(\E u \in Threads : Alive(u)) => \A t \in Threads : Alive(t)' => Alive(t)]_vars

\* C10, as stated: once stop() has been called and start() has not been called
\* again, no loop thread claims a job.
C10_NoClaimAfterStop ==
    [][~running => \A t \in Threads : ~ClaimStep(t)]_vars

\* C10, amended: once stop() has been called and start() has not been called
\* again, a loop thread claims at most one more job (in the iteration that had
\* passed the running check), and a thread that reaches the loop head exits.
C10_OneIterationAfterStop ==
    [][\A t \in Threads :
         /\ postStop'[t] <= 1
         /\ (~running /\ pc[t] = "loop" /\ pc'[t] # "loop") => pc'[t] = "dead"]_vars

\* C10 witness: a thread claimed a job after stop(), finished it and exited.
C10_Witness ==
    \E t \in Threads : postStop[t] = 1 /\ ~Alive(t) /\ ~running /\ ctl = "idle"
                       /\ \E j \in Jobs : Terminal(j)

\* -------------------------------------------------------------- C11 .. C20
\* is_running(): self._running and self._thread is not None and it is alive.
IsRunning == running /\ thread # 0 /\ Alive(thread)

\* get_status(): "stopped", "processing:<id>" or "idle" (id 0: no job id).
GetStatus ==
    IF ~IsRunning THEN [state |-> "stopped", id |-> 0]
    ELSE IF current_job_id # 0 THEN [state |-> "processing", id |-> current_job_id]
    ELSE [state |-> "idle", id |-> 0]

\* Loop thread t is inside _process_job, from the engine call to the finally block.
InProcessJob(t) ==
    pc[t] \in {"engine", "wb_query", "wb_commit", "wb_attr", "wb_cleanup", "fail_log",
               "fail_query", "fail_commit", "fail_attr", "fail_cleanup", "finally"}

\* C11: the worker status is faithful: "processing:<id>" only while a loop executes
\* job <id>, "idle" only while the loop runs and no job is being executed, "stopped"
\* only when no loop is executing a job (a stop() still waiting in join not counted).
C11_StatusFaithful ==
    /\ GetStatus.state = "processing"
            => \E t \in Threads : InProcessJob(t) /\ job[t] = GetStatus.id
    /\ GetStatus.state = "idle" => \A t \in Threads : ~InProcessJob(t)
    /\ (GetStatus.state = "stopped" /\ ctl = "idle") => \A t \in Threads : ~InProcessJob(t)

\* C12: no error raised inside an iteration ends the loop: a loop thread ends only
\* at the loop head with _running False; after the iteration, whatever it raised,
\* the thread is back at the loop head and, while not stopped, queries again.
C12_LoopSurvivesErrors ==
    [][\A t \in Threads :
         /\ (Alive(t) /\ ~Alive(t)') => (pc[t] = "loop" /\ ~running)
         /\ (pc[t] = "finally" /\ pc'[t] # "finally") => pc'[t] = "loop"
         /\ (pc[t] = "loop" /\ running /\ pc'[t] # "loop") => pc'[t] = "query"]_vars

\* C12 witness: a job was handed to _process_job, the iteration ended with the
\* failure handler itself failing (the row is still processing), and the loop is
\* at its next claim attempt.
C12_Witness ==
    \E t \in Threads, j \in Jobs :
        /\ pc[t] = "query" /\ running
        /\ returned[j] = 1 /\ Settled(j) /\ store[j].status = "processing"

\* The errors of the engine call and of reading the input file (lines 128-161).
EngineErrors == {"engine timeout", "no such file"}

\* C13: when the engine or the file read failed for a claimed job whose row is in
\* the store, the failure handler ends with the row failed and error_message equal
\* to the text of the error, and nothing is raised out of the iteration.
C13_EngineFailureRecorded ==
    [][\A t \in Threads :
         (/\ err[t] \in EngineErrors
          /\ pc[t] \in {"fail_log", "fail_query", "fail_commit"}
          /\ pc'[t] # pc[t]
          /\ Present(job[t]))
         => /\ err'[t] = err[t]
            /\ \/ pc'[t] \in {"fail_query", "fail_commit"}
               \/ /\ pc'[t] = "fail_attr"
                  /\ store'[job[t]].status = "failed"
                  /\ store'[job[t]].error_message = err[t]]_vars

\* The page-th slice (1-indexed, `limit` records long) of the sequence ord.
PageSlice(ord, page, limit) ==
    LET lo == IF (page - 1) * limit + 1 < 1 THEN 1 ELSE (page - 1) * limit + 1
        hi == IF page * limit < Len(ord) THEN page * limit ELSE Len(ord)
    IN IF lo > hi THEN <<>> ELSE SubSeq(ord, lo, hi)

\* The jobs matching a status filter (no filter: all jobs).
Matching(status) ==
    {j \in DOMAIN store : Present(j) /\ (status # "none" => store[j].status = status)}

\* The answer r of listJobs is the requested page and the total of the filter.
IsRequestedPage(r) ==
    /\ Len(r.jobs) <= r.limit
    /\ \A i \in 1..Len(r.jobs) : r.jobs[i] \in Matching(r.status)
    /\ \E ord \in Orderings(Matching(r.status)) : r.jobs = PageSlice(ord, r.page, r.limit)
    /\ r.total = Cardinality(Matching(r.status))

\* C14: listJobs(page, limit, statusFilter) returns at most `limit` records, all
\* matching the filter, the page-th slice of the matching jobs by created_at
\* descending, and total is the number of jobs matching the filter.
C14_ListJobsPage == response.op = "list" => IsRequestedPage(response)

\* The same for a page of at least 1, a limit of at least 0 and a filter that is
\* absent or names a status: there the handler returns the requested page.
ListJobsPageOnValidInput ==
    (response.op = "list" /\ response.page >= 1 /\ response.limit >= 0 /\ response.status # "")
        => IsRequestedPage(response)

\* Scenario D: 3 completed and 2 failed jobs, page 1, limit 2, filter completed.
ScenarioD ==
    /\ Cardinality({j \in ListRows : store[j].status = "completed"}) = 3
    /\ Cardinality({j \in ListRows : store[j].status = "failed"}) = 2
    /\ response.op = "list" /\ response.page = 1 /\ response.limit = 2
    /\ response.status = "completed"
    /\ Len(response.jobs) = 2 /\ response.total = 3

\* C15: deleteJob on an id that has no row answers 404 and leaves the store and
\* every file on disk as they were.
C15_DeleteUnknownIsNotFound ==
    [][\A j \in Jobs :
         (response'.op = "delete" /\ response'.id = j /\ ~Present(j))
         => (response'.code = 404 /\ store' = store /\ files' = files)]_apiVars

\* C15 witness: deleteJob answered 404 for an id whose upload is still on disk (its
\* insert had failed) while the store was left as it was.
C15_Witness ==
    /\ response.op = "delete" /\ response.code = 404
    /\ ~Present(response.id) /\ response.id \in files

\* A step of a loop thread (the handlers leave every pc as it is).
WorkerStep == pc' # pc

\* C16: a row leaves the store only in a step of deleteJob, never in a step of the
\* worker, and a row that is completed or failed keeps its status and its
\* error_message for as long as it is in the store.
C16_TerminalStaysUntilDeleted ==
    [][\A j \in Jobs :
         /\ (Present(j) /\ ~Present(j)') => ~WorkerStep
         /\ (Terminal(j) /\ Present(j)')
                => /\ store'[j].status = store[j].status
                   /\ store'[j].error_message = store[j].error_message]_vars

\* C17: the audio file of every pending or processing job is on disk.
C17_FileWhileNotTerminal ==
    \A j \in Jobs : store[j].status \in {"pending", "processing"} => j \in files

\* C18: completed_at of a job in the store is set if and only if the job is
\* completed or failed.
C18_CompletedAtIffTerminal ==
    \A j \in Jobs : Present(j) => (store[j].completed_at # "null" <=> Terminal(j))

\* C19: when _get_next_job fails at its query, commit or refresh it returns no job
\* and the job it looked at, if still in the store, is pending.
C19_ClaimErrorHarmless ==
    [][\A t \in Threads :
         (/\ pc[t] \in {"query", "claim_commit", "claim_refresh"}
          /\ faults' = faults + 1
          /\ pc'[t] # pc[t])
         => /\ pc'[t] = "loop"
            /\ returned' = returned
            /\ (job[t] # 0 /\ Present(job[t])) => store'[job[t]].status = "pending"]_vars

\* C20: a loop thread whose job has been deleted writes nothing to the store, no
\* step of the worker brings a row back, and the thread leaves _process_job with
\* the current job id cleared, back at the loop head for the next claim.
C20_DeletedJobIsLeftAlone ==
    [][\A t \in Threads :
         /\ (job[t] # 0 /\ ~Present(job[t]) /\ pc'[t] # pc[t]) => store' = store
         /\ \A j \in Jobs : (~Present(j) /\ Present(j)') => ~WorkerStep
         /\ (pc[t] = "finally" /\ pc'[t] # pc[t])
                => (current_job_id' = 0 /\ job'[t] = 0 /\ pc'[t] = "loop")]_vars

\* C20 witness: a job that was handed to _process_job has been deleted meanwhile
\* and its thread has reached the finally block.
C20_Witness ==
    \E t \in Threads :
        /\ pc[t] = "finally" /\ job[t] # 0
        /\ ~Present(job[t]) /\ returned[job[t]] >= 1

\* -------------------------------------------------------------- C21 .. C23
\* C21: a job that is in processing eventually is completed or failed, unless it
\* is deleted or the worker is stopped.
C21_ClaimedJobTerminates ==
    \A j \in Jobs :
        (store[j].status = "processing") ~> (Terminal(j) \/ ~Present(j) \/ ~running)

\* No job is left in processing by a running worker: while the worker runs, a
\* thread is at work on every job in processing.
C21_NoJobLeftInProcessing ==
    \A j \in Jobs : (store[j].status = "processing" /\ IsRunning) => ~Settled(j)

\* Loop thread t is polling the store or taking a job up: it is inside
\* _get_next_job, or about to write the job's id to _current_job_id.
Polling(t) == pc[t] \in {"query", "claim_commit", "claim_refresh", "process"}

\* C22: only the loop the worker holds in _thread polls the store and takes jobs
\* up; a loop that stop() gave up on after its join timed out claims nothing
\* further, whatever start() does afterwards.
C22_OnlyHeldLoopPolls == \A t \in Threads : Polling(t) => t = thread

\* The configuration columns of a job.
ConfigFields ==
    {"model", "language", "diarize", "min_speakers", "max_speakers", "chunk_size",
     "vad_onset", "vad_offset"}

\* C23: the engine is invoked with every configuration value of the job as it is
\* stored: each configuration field is an argument of the call and equals the
\* column of the job's row.
C23_CalledWithStoredConfig ==
    call.id # 0 =>
        \A f \in ConfigFields :
            /\ f \in DOMAIN call.args
            /\ call.args[f] = store[call.id].config[f]

\* The worker never modifies the configuration columns.
ConfigNeverModified ==
    [][\A j \in Jobs : (Present(j) /\ Present(j)') => store'[j].config = store[j].config]_vars

\* The arguments the call does pass are the stored values.
PassedArgsAreStored ==
    call.id # 0 =>
        \A f \in ConfigFields \cap DOMAIN call.args :
            call.args[f] = store[call.id].config[f]

====
